---- MODULE Spec2Model ----
(***************************************************************************)
(* Musicolour: the MusicalityEngine (src/src/musicalityEngine.js) and the  *)
(* parts of the application that drive it (src/unnamed/part_008).          *)
(*                                                                         *)
(* Number representation.  JavaScript numbers are modelled as follows:     *)
(*   - pitch indices and timestamps (ms) are integers;                     *)
(*   - metrics, scores and velocities are fixed-point integers in units of *)
(*     1/Scale, quotients rounded down.  Scale = 2^4 * 3^2 * 5^2 * 7 * 11, *)
(*     so that the ratios k/n the engine forms from counts (n <= 12) and   *)
(*     their products with its decimal constants are whole numbers; the    *)
(*     square root of the rhythm metric is rounded (error below 1e-4);     *)
(*   - the excitement returned by processNote, and the application's       *)
(*     accumulator of it, are in units of 1/EScale; EScale is a multiple   *)
(*     of 30000 so that the per-frame decay 0.002/60 is a whole number;    *)
(*   - NaN is the reserved value NaN; every arithmetic helper propagates   *)
(*     it and every comparison with it is FALSE, as in IEEE-754.           *)
(***************************************************************************)
EXTENDS Integers, Sequences, FiniteSets, TLC

VARIABLES
    eng,      \* the MusicalityEngine object: the fields its constructor sets
    ema,      \* the engine object's `ema` property (never set by the engine)
    params,   \* MODEL_PARAMS, the live-tunable parameter table
    paramsState, \* the application's React copy of the parameter table
    result,   \* the value returned by the latest processNote call
    excitement, \* the application's systemState.excitement
    lastOp,   \* ghost: the operation that produced this state
    lastIn,   \* ghost: the arguments of the latest processNote call
    fed,      \* ghost: the arguments of every call since construction/reset
    calls,    \* ghost: processNote calls so far (bounds the run)
    resets,   \* ghost: reset calls so far (bounds the run)
    changes,  \* ghost: updateParam calls so far (bounds the run)
    now,      \* the caller's clock: the latest finite timestamp it has read
    song,     \* ghost: 0 = free input, k > 0 = the k-th scripted input stream
    held,     \* a record an earlier processNote returned, as its caller sees it
    mutated,  \* ghost: the caller has written to the record it holds
    totalExcitement, \* a caller's running sum of the returned excitement
    pressedKeys,    \* the page's pressedKeys: notes of the keys held down
    releases,       \* ghost: handleKeyRelease calls per note in the latest step
    sustainActive,  \* sustainActiveRef: the sustain pedal is held
    sustainedNotes, \* sustainedNotesRef: notes whose release is deferred
    reclaimed,      \* ghost: notes struck again while deferred and held since
    lastMsg,        \* ghost: the latest MIDI message handled
    msgs,           \* ghost: MIDI messages handled so far (bounds the run)
    autoPlaying,    \* the autoplayer's autoPlaying state
    timers,         \* the pending setTimeout callbacks the autoplayer scheduled
    activeNotes,    \* activeNotesRef: notes the autoplayer holds down
    stopped,        \* ghost: stopSong has returned, no playSong by the user since
    fired,          \* ghost: timer callbacks run so far (bounds the run)
    plays,          \* ghost: playSong calls by the user (bounds the run)
    stops           \* ghost: stopSong calls (bounds the run)

\* what belongs to the callers of the engine, outside the engine and the
\* excitement accumulator
keyVars == <<pressedKeys, releases>>
midiVars == <<sustainActive, sustainedNotes, reclaimed, lastMsg, msgs>>
playerVars == <<autoPlaying, timers, activeNotes, stopped, fired, plays, stops>>
pageVars == <<keyVars, midiVars, playerVars>>
hostVars == <<held, mutated, totalExcitement, pageVars>>

vars == <<eng, ema, params, paramsState, result, excitement, lastOp, lastIn, fed,
          calls, resets, changes, now, song, hostVars>>

-----------------------------------------------------------------------------
(* Numbers *)

Scale == 27720 * 10
EScale == 3 * 10 ^ 7
NaN == 0 - 10 ^ 9
MaxRoot == 2 * 23170     \* the largest integer whose square fits in 32 bits

Abs(x) == IF x < 0 THEN -x ELSE x
Min(a, b) == IF a < b THEN a ELSE b
Max(a, b) == IF a > b THEN a ELSE b

\* a - b on JavaScript numbers
NSub(a, b) == IF a = NaN \/ b = NaN THEN NaN ELSE a - b
NAdd(a, b) == IF a = NaN \/ b = NaN THEN NaN ELSE a + b

\* Math.min / Math.max: NaN if either argument is NaN
JsMin(a, b) == IF a = NaN \/ b = NaN THEN NaN ELSE Min(a, b)
JsMax(a, b) == IF a = NaN \/ b = NaN THEN NaN ELSE Max(a, b)

\* a % m in JavaScript: the result takes the sign of the dividend
JsRem(a, m) == IF a >= 0 THEN a % m ELSE -((-a) % m)

\* floor of the square root
RECURSIVE SqrtIter(_, _, _)
SqrtIter(n, lo, hi) ==
    IF lo >= hi THEN lo
    ELSE LET mid == (lo + hi + 1) \div 2
         IN  IF mid * mid <= n THEN SqrtIter(n, mid, hi) ELSE SqrtIter(n, lo, mid - 1)
ISqrt(n) == SqrtIter(n, 0, Min(n, MaxRoot))

\* Sequence helpers (Array.prototype.slice(-k), reduce, filter().length)
LastK(s, k) == IF Len(s) <= k THEN s ELSE SubSeq(s, Len(s) - k + 1, Len(s))
HasNaN(s) == \E i \in 1..Len(s) : s[i] = NaN
RECURSIVE SumSeq(_)
SumSeq(s) == IF s = <<>> THEN 0 ELSE s[1] + SumSeq(Tail(s))
SumSq(s) == SumSeq([i \in 1..Len(s) |-> s[i] * s[i]])
Count(flags) == Cardinality({i \in DOMAIN flags : flags[i]})

\* consecutive differences s[i+1] - s[i]
Diffs(s) == [i \in 1..(Len(s) - 1) |-> NSub(s[i + 1], s[i])]

\* n * sum(x^2) - (sum x)^2: variance / mean^2 = Dev(s) / (sum s)^2
Dev(s) == Len(s) * SumSq(s) - SumSeq(s) * SumSeq(s)

-----------------------------------------------------------------------------
(* Constant tables *)

ScaleNames ==
    <<"MAJOR", "NATURAL_MINOR", "HARMONIC_MINOR", "PENTATONIC_MAJOR",
      "PENTATONIC_MINOR", "BLUES", "CHROMATIC">>

\* the table without its last template, CHROMATIC
ScalesNoChromatic ==
    <<{0, 2, 4, 5, 7, 9, 11},
      {0, 2, 3, 5, 7, 8, 10},
      {0, 2, 3, 5, 7, 8, 11},
      {0, 2, 4, 7, 9},
      {0, 3, 5, 7, 10},
      {0, 3, 5, 6, 7, 10}>>

SCALES ==
    <<{0, 2, 4, 5, 7, 9, 11},
      {0, 2, 3, 5, 7, 8, 10},
      {0, 2, 3, 5, 7, 8, 11},
      {0, 2, 4, 7, 9},
      {0, 3, 5, 7, 10},
      {0, 3, 5, 6, 7, 10},
      {0, 1, 2, 3, 4, 5, 6, 7, 8, 9, 10, 11}>>

CHORDS ==
    <<{0, 4, 7}, {0, 3, 7}, {0, 3, 6}, {0, 4, 8},
      {0, 4, 7, 11}, {0, 4, 7, 10}, {0, 3, 7, 10}>>

\* I_V_vi_IV, I_IV_V, ii_V_I, I_vi_IV_V, vi_IV_I_V; no method reads the table
PROGRESSIONS ==
    <<<<0, 7, 9, 5>>, <<0, 5, 7>>, <<2, 7, 0>>, <<0, 9, 5, 7>>, <<9, 5, 0, 7>>>>

HistoryCap == 32

MetricNames ==
    {"melodicCoherence", "harmonicProgression", "rhythmicConsistency",
     "scaleAdherence", "phraseStructure", "dynamicVariation"}

NoScale == [name |-> "null", root |-> -1, score |-> 0]

\* new MusicalityEngine()
Constructor ==
    [noteHistory |-> <<>>,
     timeHistory |-> <<>>,
     chordBuffer |-> <<>>,
     scaleContext |-> NoScale,
     rhythmPattern |-> <<>>,
     lastBeat |-> "null",
     tempo |-> "null",
     musicalityScore |-> 0,
     metrics |-> [melodicCoherence |-> 0,
                  harmonicProgression |-> 0,
                  rhythmicConsistency |-> 0,
                  scaleAdherence |-> 0,
                  phraseStructure |-> 0,
                  dynamicVariation |-> 0]]

-----------------------------------------------------------------------------
(* updateRhythmicConsistency / detectRhythmPatterns *)

\* steady beat: every interval within 10% of the first
SteadyBeat(intervals) ==
    \A i \in 1..Len(intervals) :
        /\ intervals[i] # NaN /\ intervals[1] # NaN
        /\ 10 * Abs(intervals[i] - intervals[1]) < intervals[1]

\* syncopation: the last four intervals alternate long/short against the first
Syncopated(intervals) ==
    LET last4 == LastK(intervals, 4)
    IN  \A i \in 1..Len(last4) :
            /\ last4[i] # NaN /\ intervals[1] # NaN
            /\ IF (i - 1) % 2 = 0
               THEN 10 * last4[i] > 13 * intervals[1]
               ELSE 10 * last4[i] < 7 * intervals[1]

\* triplet feel: |last / third-last - 0.667| < 0.1; x/0 is Infinity or NaN
TripletFeel(intervals) ==
    LET num == intervals[Len(intervals)]
        den == intervals[Len(intervals) - 2]
    IN  /\ num # NaN /\ den # NaN
        /\ den > 0
        /\ 567 * den < 1000 * num
        /\ 1000 * num < 767 * den

detectRhythmPatterns(intervals) ==
    IF Len(intervals) < 4 THEN 0
    ELSE LET steady == IF SteadyBeat(intervals) THEN 5 ELSE 0
             synco == IF Syncopated(intervals) THEN 7 ELSE 0
             triplet == IF TripletFeel(intervals) THEN 6 ELSE 0
         IN  Min(Scale, ((steady + synco + triplet) * Scale) \div 10)

\* a tempo score whose ideal range leaves out its two ends, 60 and 180 bpm
TempoScoreOpen(sum, n) ==
    IF sum = NaN THEN 0
    ELSE IF sum = 0 THEN 0
    ELSE IF 60000 * n > 60 * sum /\ 60000 * n < 180 * sum THEN Scale
    ELSE IF 60000 * n >= 40 * sum /\ 60000 * n <= 240 * sum THEN (7 * Scale) \div 10
    ELSE 0
\* tempoScore from bpm = 60000 / avgInterval, avgInterval = sum / n (sum >= 0)
TempoScore(sum, n) ==
    IF sum = NaN THEN 0
    ELSE IF sum = 0 THEN 0                      \* bpm = Infinity: "way too fast"
    ELSE IF 60000 * n >= 60 * sum /\ 60000 * n <= 180 * sum THEN Scale
    ELSE IF 60000 * n >= 40 * sum /\ 60000 * n <= 240 * sum THEN (7 * Scale) \div 10
    ELSE IF 60000 * n > 240 * sum /\ 60000 * n <= 300 * sum THEN (3 * Scale) \div 10
    ELSE IF 60000 * n > 300 * sum THEN 0
    ELSE IF 60000 * n < 40 * sum /\ 60000 * n >= 20 * sum THEN (3 * Scale) \div 10
    ELSE 0

\* Math.min(1, stdDev / avgInterval) = min(1, sqrt(dev) / sum) for sum > 0;
\* dev and sum are scaled by k before the integer square root for precision
CoeffOfVariation(dev, sum) ==
    IF dev >= sum * sum THEN Scale
    ELSE LET k == Max(1, Min(1000, MaxRoot \div sum))
         IN  ((ISqrt(dev * k * k) * (Scale \div 10)) \div (sum * k)) * 10

\* consistency = 1 - Math.min(1, stdDev / avgInterval); 0/0 is NaN
Consistency(recent) ==
    IF HasNaN(recent) THEN NaN
    ELSE LET sum == SumSeq(recent)
         IN  IF sum = 0 THEN NaN
             ELSE Scale - CoeffOfVariation(Dev(recent), sum)

\* the value assigned to metrics.rhythmicConsistency (timeHistory.length >= 2)
RhythmValue(timeHistory) ==
    LET intervals == Diffs(timeHistory)
        recent == LastK(intervals, 8)
        n == Len(recent)
        sum == IF HasNaN(recent) THEN NaN ELSE SumSeq(recent)
        fast == sum # NaN /\ sum < 150 * n
        consistency0 == Consistency(recent)
        consistency == IF fast /\ consistency0 # NaN
                       THEN (consistency0 * 3) \div 10 ELSE consistency0
        rhythmScore == detectRhythmPatterns(intervals)
        tempoScore == IF fast THEN 0 ELSE TempoScore(sum, n)
    IN  IF consistency = NaN THEN NaN
        ELSE (consistency * 5 + rhythmScore * 3 + tempoScore * 2) \div 10

updateRhythmicConsistency(e) ==
    IF Len(e.timeHistory) < 2 THEN e
    ELSE [e EXCEPT !.metrics.rhythmicConsistency = RhythmValue(e.timeHistory)]

-----------------------------------------------------------------------------
(* updateMelodicCoherence / analyzeMelodicContour *)

IsAscending(notes) == \A i \in 2..Len(notes) : notes[i] >= notes[i - 1]
IsDescending(notes) == \A i \in 2..Len(notes) : notes[i] <= notes[i - 1]

Sign(x) == IF x > 0 THEN 1 ELSE IF x < 0 THEN -1 ELSE 0

\* the wave-pattern loop: <<direction, directionChanges>> after notes[2..i]
RECURSIVE DirectionChanges(_, _)
DirectionChanges(notes, i) ==
    IF i < 2 THEN <<0, 0>>
    ELSE LET prev == DirectionChanges(notes, i - 1)
             newDirection == Sign(notes[i] - notes[i - 1])
         IN  IF newDirection # 0 /\ newDirection # prev[1]
             THEN <<newDirection, prev[2] + 1>>
             ELSE prev

analyzeMelodicContour(notes) ==
    IF Len(notes) < 4 THEN 0
    ELSE LET firstNote == notes[1]
             lastNote == notes[Len(notes)]
             middleNote == notes[(Len(notes) \div 2) + 1]
             changes_ == DirectionChanges(notes, Len(notes))[2]
         IN  IF middleNote > firstNote /\ middleNote > lastNote THEN Scale
             ELSE IF middleNote < firstNote /\ middleNote < lastNote THEN (9 * Scale) \div 10
             ELSE IF IsAscending(notes) \/ IsDescending(notes) THEN (7 * Scale) \div 10
             ELSE IF changes_ >= 2 /\ changes_ <= 4 THEN (6 * Scale) \div 10
             ELSE (3 * Scale) \div 10

IsRepeat(d) == Abs(d) = 0
\* a stepwise test that also takes a repeated note for a step
IsStepOrRepeat(d) == Abs(d) <= 2
IsStep(d) == Abs(d) # 0 /\ Abs(d) <= 2
IsLeap(d) == Abs(d) >= 5

\* the value assigned to metrics.melodicCoherence (noteHistory.length >= 3)
MelodicValue(noteHistory) ==
    LET recentNotes == LastK(noteHistory, 8)
        intervals == Diffs(recentNotes)
        total == Len(intervals)
        stepwiseMotion == Count([i \in DOMAIN intervals |-> IsStep(intervals[i])])
        leapMotion == Count([i \in DOMAIN intervals |-> IsLeap(intervals[i])])
        repeatedNotes == Count([i \in DOMAIN intervals |-> IsRepeat(intervals[i])])
        coherenceScore ==
            Min(Scale, (stepwiseMotion * 15 * Scale) \div (10 * total))
            + Min((3 * Scale) \div 10, (leapMotion * 2 * Scale) \div total)
            - (repeatedNotes * 5 * Scale) \div (10 * total)
        contourScore == analyzeMelodicContour(recentNotes)
    IN  Max(0, Min(Scale, (coherenceScore * 6 + contourScore * 4) \div 10))

updateMelodicCoherence(e) ==
    IF Len(e.noteHistory) < 3 THEN e
    ELSE [e EXCEPT !.metrics.melodicCoherence = MelodicValue(e.noteHistory)]


-----------------------------------------------------------------------------
(* updateScaleAdherence *)

\* the note set without the reduction to pitch classes
PitchesRaw(notes) == {notes[i] : i \in 1..Len(notes)}
PitchClasses(notes) == {JsRem(notes[i], 12) : i \in 1..Len(notes)}
Transpose(template, root) == {(root + i) % 12 : i \in template}

SetMax(S) == CHOOSE x \in S : \A y \in S : y <= x

\* The nested loops over SCALES and roots 0..11: candidate k = 1..84 in
\* enumeration order is scale (k - 1) \div 12 + 1 at root (k - 1) % 12.  All
\* fits share the denominator noteSet.size, so `score > bestScore` compares
\* the match counts; bestScore before candidate k is the largest count among
\* the earlier candidates (0 if none), and the loop leaves in bestScale the
\* last candidate that replaced it.
\* a comparison that lets an equal fit replace the best one
ScaleBetterOrEqual(matches, bestMatches) == matches >= bestMatches
ScaleBetter(matches, bestMatches) == matches > bestMatches

ScaleFits(noteSet) ==
    [k \in 1..(12 * Len(SCALES)) |->
        Cardinality(noteSet \cap Transpose(SCALES[((k - 1) \div 12) + 1], (k - 1) % 12))]

\* the candidates at which `bestScale = {...}` executes
ScaleUpdates(fits) ==
    {k \in DOMAIN fits :
        ScaleBetter(fits[k], SetMax({0} \cup {fits[j] : j \in 1..(k - 1)}))}

\* <<bestScale, bestScore>> (noteHistory.length >= 5)
DetectScale(noteHistory) ==
    LET noteSet == PitchClasses(LastK(noteHistory, 12))
        fits == ScaleFits(noteSet)
        updates == ScaleUpdates(fits)
    IN  IF updates = {} THEN <<NoScale, 0>>
        ELSE LET k == SetMax(updates)
                 bestScore == (fits[k] * Scale) \div Cardinality(noteSet)
             IN  <<[name |-> ScaleNames[((k - 1) \div 12) + 1],
                    root |-> (k - 1) % 12,
                    score |-> bestScore],
                   bestScore>>

updateScaleAdherence(e) ==
    IF Len(e.noteHistory) < 5 THEN e
    ELSE LET d == DetectScale(e.noteHistory)
         IN  [e EXCEPT !.scaleContext = d[1], !.metrics.scaleAdherence = d[2]]

-----------------------------------------------------------------------------
(* updateHarmonicProgression / detectChordProgression *)

\* matches / chordNotes.size when at least two chord notes are present, else 0
ChordFit(noteSet, c, root) ==
    LET chordNotes == Transpose(CHORDS[c], root)
        matches == Cardinality(noteSet \cap chordNotes)
    IN  IF matches >= 2 THEN (matches * Scale) \div Cardinality(chordNotes) ELSE 0

detectChordProgression(notes) ==
    LET noteSet == PitchClasses(notes)
    IN  IF Cardinality(noteSet) < 2 THEN 0
        ELSE SetMax({0} \cup {ChordFit(noteSet, c, root) :
                                  c \in 1..Len(CHORDS), root \in 0..11})

updateHarmonicProgression(e) ==
    IF Len(e.noteHistory) < 3 THEN e
    ELSE [e EXCEPT !.metrics.harmonicProgression =
                       detectChordProgression(LastK(e.noteHistory, 6))]

-----------------------------------------------------------------------------
(* updatePhraseStructure *)

PhraseBonus(phraseLength) ==
    IF phraseLength % 4 = 0 \/ phraseLength % 8 = 0 THEN Scale \div 2 ELSE 0

CadenceBonus(e) ==
    IF /\ e.scaleContext # NoScale
       /\ Len(e.noteHistory) >= 8
       /\ JsRem(e.noteHistory[Len(e.noteHistory)], 12) = e.scaleContext.root
    THEN Scale \div 2 ELSE 0

updatePhraseStructure(e) ==
    IF Len(e.noteHistory) < 8 THEN e
    ELSE [e EXCEPT !.metrics.phraseStructure =
                       Min(Scale, PhraseBonus(Len(e.noteHistory)) + CadenceBonus(e))]

-----------------------------------------------------------------------------
(* updateDynamicVariation *)

\* 0.5 + (velocity - 0.5) * 0.5
DynamicValue(velocity) ==
    IF velocity = NaN THEN NaN
    ELSE Scale \div 2 + (velocity - Scale \div 2) \div 2

updateDynamicVariation(e, velocity) ==
    [e EXCEPT !.metrics.dynamicVariation = DynamicValue(velocity)]


-----------------------------------------------------------------------------
(* detectRandomPlaying / detectRepeatingPatterns / detectScalePatterns *)

detectRepeatingPatterns(noteHistory) ==
    /\ Len(noteHistory) >= 8
    /\ \E patternLength \in 2..4 :
         \E i \in 0..(Len(noteHistory) - patternLength * 2) :
            SubSeq(noteHistory, i + 1, i + patternLength)
              = SubSeq(noteHistory, i + patternLength + 1, i + patternLength * 2)

IsScaleStep(d) == (d >= 1 /\ d <= 2) \/ (d >= -2 /\ d <= -1)

\* stepwiseMotion >= (recent.length - 1) * 0.6
detectScalePatterns(noteHistory) ==
    /\ Len(noteHistory) >= 4
    /\ LET recent == LastK(noteHistory, 8)
           steps == Diffs(recent)
       IN  10 * Count([i \in DOMAIN steps |-> IsScaleStep(steps[i])])
              >= 6 * (Len(recent) - 1)

IsLargeJump(d) == d > 8
IsVeryLargeJump(d) == d > 12

\* timeVariance / (avgTimeInterval * avgTimeInterval) > 0.15, i.e.
\* Dev / sum^2 > 3/20; NaN (a NaN interval, or 0/0) compares FALSE
TimeInconsistent(timeIntervals) ==
    /\ ~HasNaN(timeIntervals)
    /\ LET sum == SumSeq(timeIntervals)
           sq == sum * sum
       IN  /\ sum # 0
           /\ Dev(timeIntervals) > 3 * (sq \div 20) + (3 * (sq % 20)) \div 20

\* randomScore, in tenths
RandomScore(e) ==
    LET intervals == [i \in 1..(Len(e.noteHistory) - 1) |->
                          Abs(e.noteHistory[i + 1] - e.noteHistory[i])]
        largeJumps == Count([i \in DOMAIN intervals |-> IsLargeJump(intervals[i])])
        veryLargeJumps == Count([i \in DOMAIN intervals |-> IsVeryLargeJump(intervals[i])])
        hasRepeatingPatterns == detectRepeatingPatterns(e.noteHistory)
        hasScalePatterns == detectScalePatterns(e.noteHistory)
        mc == e.metrics.melodicCoherence
        rc == e.metrics.rhythmicConsistency
    IN    (IF 4 * largeJumps > Len(intervals) THEN 3 ELSE 0)
        + (IF veryLargeJumps > 0 THEN 2 ELSE 0)
        + (IF SumSeq(intervals) > 5 * Len(intervals) THEN 2 ELSE 0)
        + (IF TimeInconsistent(Diffs(e.timeHistory)) THEN 2 ELSE 0)
        + (IF ~hasRepeatingPatterns THEN 2 ELSE 0)
        + (IF ~hasScalePatterns THEN 2 ELSE 0)
        + (IF mc # NaN /\ 10 * mc < 5 * Scale THEN 2 ELSE 0)
        - (IF rc # NaN /\ 10 * rc > 8 * Scale THEN 2 ELSE 0)
        - (IF hasScalePatterns THEN 3 ELSE 0)

detectRandomPlaying(e) ==
    /\ Len(e.noteHistory) >= 5
    /\ RandomScore(e) > 5

-----------------------------------------------------------------------------
(* calculatePenalties / calculateMusicalityScore / calculateExcitementBoost *)

\* key mashing: mean of the last (up to) 4 intervals below 100 ms
IsMashing(timeHistory) ==
    /\ Len(timeHistory) >= 3
    /\ LET intervals == Diffs(LastK(timeHistory, 5))
       IN  /\ ~HasNaN(intervals)
           /\ SumSeq(intervals) < 100 * Len(intervals)

MetricValues(metrics) ==
    <<metrics.melodicCoherence, metrics.harmonicProgression,
      metrics.rhythmicConsistency, metrics.scaleAdherence,
      metrics.phraseStructure, metrics.dynamicVariation>>

\* totalMetricScore < 1.5
LowTotal(metrics) ==
    /\ ~HasNaN(MetricValues(metrics))
    /\ 10 * SumSeq(MetricValues(metrics)) < 15 * Scale

\* penalties that leave out the one for low overall metrics
calculatePenaltiesNoLow(e) ==
    LET isRandom == detectRandomPlaying(e)
        isMashing == IsMashing(e.timeHistory)
        m1 == IF isRandom THEN 300 ELSE 1000
        m2 == IF isMashing THEN m1 \div 10 ELSE m1
    IN  [multiplier |-> m2, isRandom |-> isRandom, isMashing |-> isMashing]

\* penalties: multiplier in thousandths, isRandom, isMashing
calculatePenalties(e) ==
    LET isRandom == detectRandomPlaying(e)
        isMashing == IsMashing(e.timeHistory)
        m1 == IF isRandom THEN 300 ELSE 1000
        m2 == IF isMashing THEN m1 \div 10 ELSE m1
        m3 == IF LowTotal(e.metrics) THEN m2 \div 2 ELSE m2
    IN  [multiplier |-> m3, isRandom |-> isRandom, isMashing |-> isMashing]

\* the fixed weights, in hundredths
Weights ==
    [melodicCoherence |-> 25, harmonicProgression |-> 15, rhythmicConsistency |-> 25,
     scaleAdherence |-> 20, phraseStructure |-> 10, dynamicVariation |-> 5]

WeightedSum(metrics) ==
    IF HasNaN(MetricValues(metrics)) THEN NaN
    ELSE (  metrics.melodicCoherence * Weights.melodicCoherence
          + metrics.harmonicProgression * Weights.harmonicProgression
          + metrics.rhythmicConsistency * Weights.rhythmicConsistency
          + metrics.scaleAdherence * Weights.scaleAdherence
          + metrics.phraseStructure * Weights.phraseStructure
          + metrics.dynamicVariation * Weights.dynamicVariation) \div 100

ScoreValue(e) ==
    LET total == WeightedSum(e.metrics)
        penalties == calculatePenalties(e)
        scaled == IF total = NaN THEN NaN ELSE (total * penalties.multiplier) \div 1000
    IN  IF penalties.isRandom \/ penalties.isMashing
        THEN JsMin(scaled, (2 * Scale) \div 10)
        ELSE scaled

calculateMusicalityScore(e) == [e EXCEPT !.musicalityScore = ScoreValue(e)]

\* baseRatePerNote = 0.00492, in units of 1/100000
BaseRatePerNote == 492

\* a boost without the cutoff for poor playing
BoostNoCutoff(score) ==
    IF score = NaN THEN NaN
    ELSE IF 100 * score > 85 * Scale THEN (115 * Scale) \div 100
    ELSE score

\* a boost that grants the bonus from 0.85 on, not only above it
BoostFromThreshold(score) ==
    IF score = NaN THEN NaN
    ELSE IF 100 * score >= 85 * Scale THEN (115 * Scale) \div 100
    ELSE IF 10 * score < 3 * Scale THEN 0
    ELSE score

\* boost, in units of 1/Scale
Boost(score) ==
    IF score = NaN THEN NaN
    ELSE IF 100 * score > 85 * Scale THEN (115 * Scale) \div 100
    ELSE IF 10 * score < 3 * Scale THEN 0
    ELSE score

\* baseRatePerNote * boost, in units of 1/EScale
calculateExcitementBoost(e) ==
    LET boost == Boost(e.musicalityScore)
    IN  IF boost = NaN THEN NaN
        ELSE (BaseRatePerNote * boost) \div (Scale \div (EScale \div 100000))


-----------------------------------------------------------------------------
(* processNote / reset / updateParam *)

\* a push that shifts one entry too late
PushHistoryLate(history, x) ==
    LET pushed == Append(history, x)
    IN  IF Len(pushed) > HistoryCap + 1 THEN Tail(pushed) ELSE pushed

\* push, then shift once the history holds more than HistoryCap entries
PushHistory(history, x) ==
    LET pushed == Append(history, x)
    IN  IF Len(pushed) > HistoryCap THEN Tail(pushed) ELSE pushed

\* the engine after processNote(noteIndex, timestamp, velocity)
processNote(e, noteIndex, timestamp, velocity) ==
    LET e0 == [e EXCEPT !.noteHistory = PushHistory(e.noteHistory, noteIndex),
                        !.timeHistory = PushHistory(e.timeHistory, timestamp)]
        e1 == updateRhythmicConsistency(e0)
        e2 == updateMelodicCoherence(e1)
        e3 == updateScaleAdherence(e2)
        e4 == updateHarmonicProgression(e3)
        e5 == updatePhraseStructure(e4)
        e6 == updateDynamicVariation(e5, velocity)
    IN  calculateMusicalityScore(e6)

\* a return statement that hands out the engine's own metrics object
MetricsAliased == TRUE
\* `metrics: { ...this.metrics }`: the returned record holds a copy, not the
\* object the engine goes on writing to
MetricsShared == FALSE

\* the record processNote returns
Returned(e) ==
    [score |-> e.musicalityScore,
     metrics |-> e.metrics,
     excitement |-> calculateExcitementBoost(e)]

\* a reset that forgets to clear the time history
resetKeepsTimes(e) ==
    [e EXCEPT !.noteHistory = <<>>,
              !.chordBuffer = <<>>,
              !.scaleContext = NoScale,
              !.rhythmPattern = <<>>,
              !.lastBeat = "null",
              !.tempo = "null",
              !.musicalityScore = 0,
              !.metrics = [key \in DOMAIN e.metrics |-> 0]]

\* the engine after reset()
reset(e) ==
    [e EXCEPT !.noteHistory = <<>>,
              !.timeHistory = <<>>,
              !.chordBuffer = <<>>,
              !.scaleContext = NoScale,
              !.rhythmPattern = <<>>,
              !.lastBeat = "null",
              !.tempo = "null",
              !.musicalityScore = 0,
              !.metrics = [key \in DOMAIN e.metrics |-> 0]]

\* an updateParam that leaves the baseline as it is
updateParamEmaKept(old) == old

\* updateParam's write to the engine: musicalityEngineRef.current.ema = null
updateParamEma(old) == "null"

\* updateParam's write to MODEL_PARAMS / paramsState
updateParamTable(table, key, value) == [table EXCEPT ![key] = value]

-----------------------------------------------------------------------------
(* Inputs *)

MaxFree == 3       \* processNote calls of a free-input run
MaxLong == 34      \* processNote calls of the longest scripted run
MaxResets == 1     \* reset calls of a run
MaxChanges == 1    \* updateParam calls of a run

FreePitches == {0, 7}
FreeDeltas == {0, 400}
FreeVelocities == {Scale}
BadPitch == 0 - 1

ParamKeys == {"EMA_ALPHA", "BOOST_POS"}
ParamValues == {1}

\* the table of tunables the application imports next to the engine; its
\* values are not read by the engine modelled here and are left abstract
MODEL_PARAMS == [k \in ParamKeys |-> 0]

\* the ascending major scale of testSimpleScale, p semitones up
MajorScale(p) ==
    [pattern |-> [i \in 1..8 |-> p + <<0, 2, 4, 5, 7, 9, 11, 12>>[i]],
     dt |-> 400, velocity |-> Scale \div 2, notes |-> 8]

\* scripted input streams: a pitch pattern looped at a constant interval,
\* for the given number of notes
Songs ==
    <<[pattern |-> <<0, 2, 4, 5>>, dt |-> 375, velocity |-> Scale \div 2,
       notes |-> 12],
      [pattern |-> <<0, 2, 4, 5, 7, 9, 11, 12>>, dt |-> 400,
       velocity |-> Scale \div 2, notes |-> MaxLong],
      [pattern |-> <<7>>, dt |-> 500, velocity |-> 0, notes |-> 9],
      [pattern |-> <<0, 16, 3, 11, 8>>, dt |-> 80, velocity |-> Scale,
       notes |-> 20],
      [pattern |-> <<0, 4, 7>>, dt |-> 0, velocity |-> Scale \div 2,
       notes |-> 4],
      [pattern |-> <<12>>, dt |-> 60, velocity |-> Scale, notes |-> 9],
      [pattern |-> <<3>>, dt |-> 0, velocity |-> Scale \div 2, notes |-> 8]>>
    \o [p \in 1..11 |-> MajorScale(p)]

\* MIDI note numbers sent to the page: 20 lies below the keyboard
MidiNotes == {20, 60, 64}
NoReleases == [n \in MidiNotes |-> 0]
NoMsg == [kind |-> "none", note |-> 0]

NoResult == [score |-> 0, metrics |-> Constructor.metrics, excitement |-> 0]
NoInput == [pitch |-> 0, timestamp |-> 0, velocity |-> 0]

Init ==
    /\ eng = Constructor
    /\ ema = "undefined"
    /\ params = MODEL_PARAMS
    /\ paramsState = MODEL_PARAMS
    /\ result = NoResult
    /\ excitement = 0
    /\ lastOp = "new"
    /\ lastIn = NoInput
    /\ fed = <<>>
    /\ calls = 0
    /\ resets = 0
    /\ changes = 0
    /\ now = 0
    /\ song \in 0..Len(Songs)
    /\ held = NoResult
    /\ mutated = FALSE
    /\ totalExcitement = 0
    /\ pressedKeys = {}
    /\ releases = NoReleases
    /\ sustainActive = FALSE
    /\ sustainedNotes = {}
    /\ reclaimed = {}
    /\ lastMsg = NoMsg
    /\ msgs = 0
    /\ autoPlaying = FALSE
    /\ timers = {}
    /\ activeNotes = {}
    /\ stopped = FALSE
    /\ fired = 0
    /\ plays = 0
    /\ stops = 0

\* one processNote call and what the caller keeps of it
Call(pitch, timestamp, velocity) ==
    /\ eng' = processNote(eng, pitch, timestamp, velocity)
    /\ result' = Returned(eng')
    /\ lastOp' = "note"
    /\ lastIn' = [pitch |-> pitch, timestamp |-> timestamp, velocity |-> velocity]
    /\ fed' = Append(fed, <<pitch, timestamp, velocity>>)
    /\ calls' = calls + 1
    /\ now' = IF timestamp = NaN THEN now ELSE timestamp
    /\ UNCHANGED <<ema, params, paramsState, resets, changes, song>>

\* a note with valid arguments, dt ms after the previous one
FreeNote ==
    /\ song = 0
    /\ calls < MaxFree
    /\ \E pitch \in FreePitches, dt \in FreeDeltas, velocity \in FreeVelocities :
          Call(pitch, now + dt, velocity)
    /\ UNCHANGED <<excitement, hostVars>>

\* a call with one invalid argument
InvalidNote ==
    /\ song = 0
    /\ calls < MaxFree
    /\ \E in \in {[pitch |-> 0, timestamp |-> NaN, velocity |-> Scale \div 2],
                  [pitch |-> 0, timestamp |-> now + 400, velocity |-> NaN],
                  [pitch |-> BadPitch, timestamp |-> now + 400, velocity |-> Scale \div 2]} :
          Call(in.pitch, in.timestamp, in.velocity)
    /\ UNCHANGED <<excitement, hostVars>>

\* processNote on the next note of the scripted stream
SongCall ==
    LET s == Songs[song]
        k == Len(fed)
    IN  Call(s.pattern[(k % Len(s.pattern)) + 1],
             IF calls = 0 THEN now ELSE now + s.dt,
             s.velocity)

\* the next note of the scripted stream, fed to the engine directly
SongNote ==
    /\ song > 0
    /\ calls < Songs[song].notes
    /\ SongCall
    /\ UNCHANGED <<excitement, hostVars>>

Reset ==
    /\ resets < MaxResets
    /\ eng' = reset(eng)
    /\ lastOp' = "reset"
    /\ fed' = <<>>
    /\ resets' = resets + 1
    /\ UNCHANGED <<ema, params, paramsState, result, excitement, lastIn, calls,
                   changes, now, song, hostVars>>

UpdateParam ==
    /\ changes < MaxChanges
    /\ \E key \in ParamKeys, value \in ParamValues :
          /\ params' = updateParamTable(params, key, value)
          /\ paramsState' = updateParamTable(paramsState, key, value)
    /\ ema' = updateParamEma(ema)
    /\ lastOp' = "param"
    /\ changes' = changes + 1
    /\ UNCHANGED <<eng, result, excitement, lastIn, fed, calls, resets, now, song,
                   hostVars>>

Next == FreeNote \/ InvalidNote \/ SongNote \/ Reset \/ UpdateParam

Spec == Init /\ [][Next]_vars

-----------------------------------------------------------------------------
(* The application: note events and the decay loop on systemState.excitement *)

MaxAppNotes == 6   \* note events of a run of the application

\* the scripted streams played through the application: the looped
\* do-re-mi-fa and the three-note chord struck within one millisecond
AppSongs == {1, 5}

\* decayRatePerSecond / 60 = 0.002 / 60, in units of 1/EScale
DecayRatePerFrame == (2 * EScale) \div (1000 * 60)

\* Math.max(0, Math.min(1, prev.excitement + excitementIncrease))
Accumulate(prev, excitementIncrease) ==
    JsMax(0, JsMin(EScale, NAdd(prev, excitementIncrease)))

\* Math.max(0, prev.excitement - decayRatePerFrame)
Decay(prev) == JsMax(0, NSub(prev, DecayRatePerFrame))

AppInit == Init /\ song \in AppSongs

\* updateSystemExcitement: processNote at the current time, then the
\* accumulator takes the returned excitement
NoteEvent ==
    /\ calls < Min(Songs[song].notes, MaxAppNotes)
    /\ SongCall
    /\ excitement' = Accumulate(excitement, result'.excitement)
    /\ UNCHANGED hostVars

\* one run of the decay interval's callback
Tick ==
    /\ excitement' = Decay(excitement)
    /\ UNCHANGED <<eng, ema, params, paramsState, result, lastOp, lastIn, fed,
                   calls, resets, changes, now, song, hostVars>>

AppNext == NoteEvent \/ Tick

\* the interval timer keeps firing for as long as the component is mounted
AppSpec == AppInit /\ [][AppNext]_vars /\ WF_vars(Tick)

-----------------------------------------------------------------------------
(* A caller that keeps a returned record while the engine runs on *)

MaxKeptNotes == 5  \* processNote calls of a run of the keeping caller
KeptSongs == {1, 4}
MutableKeys == {"melodicCoherence", "dynamicVariation"}
MutableValues == {0, Scale}

\* what a held record shows once the engine's metrics are m
Seen(h, m) == IF MetricsShared /\ h # NoResult THEN [h EXCEPT !.metrics = m] ELSE h

KeptInit == Init /\ song \in KeptSongs

\* processNote while an earlier record is held
KeptNote ==
    /\ calls < MaxKeptNotes
    /\ SongCall
    /\ held' = Seen(held, eng'.metrics)
    /\ UNCHANGED <<excitement, mutated, totalExcitement, pageVars>>

\* the caller keeps the record the latest call returned
Keep ==
    /\ lastOp = "note"
    /\ held = NoResult
    /\ held' = result
    /\ lastOp' = "keep"
    /\ UNCHANGED <<eng, ema, params, paramsState, result, excitement, lastIn,
                   fed, calls, resets, changes, now, song, mutated,
                   totalExcitement, pageVars>>

\* reset() while an earlier record is held
KeptReset ==
    /\ resets < MaxResets
    /\ eng' = reset(eng)
    /\ held' = Seen(held, eng'.metrics)
    /\ lastOp' = "reset"
    /\ fed' = <<>>
    /\ resets' = resets + 1
    /\ UNCHANGED <<ema, params, paramsState, result, excitement, lastIn, calls,
                   changes, now, song, mutated, totalExcitement, pageVars>>

\* the caller writes to the metrics of the record it holds
Mutate ==
    /\ held # NoResult
    /\ ~mutated
    /\ \E key \in MutableKeys, value \in MutableValues :
          /\ held' = [held EXCEPT !.metrics[key] = value]
          /\ eng' = IF MetricsShared
                    THEN [eng EXCEPT !.metrics[key] = value] ELSE eng
    /\ mutated' = TRUE
    /\ lastOp' = "mutate"
    /\ UNCHANGED <<ema, params, paramsState, result, excitement, lastIn, fed,
                   calls, resets, changes, now, song, totalExcitement,
                   pageVars>>

KeptNext == KeptNote \/ Keep \/ KeptReset \/ Mutate

KeptSpec == KeptInit /\ [][KeptNext]_vars

-----------------------------------------------------------------------------
(* A stream of notes at one constant inter-onset interval *)

MaxSteadyNotes == 6  \* processNote calls of a steady run
SteadyIntervals == {334, 375, 1000}
SteadyPitches == {0, 7}

SteadyInit == Init /\ song = 0

\* the next note: any pitch, at the interval of the stream so far
SteadyNote ==
    /\ calls < MaxSteadyNotes
    /\ \E pitch \in SteadyPitches, dt \in SteadyIntervals :
          /\ Len(fed) >= 2 => dt = fed[Len(fed)][2] - fed[Len(fed) - 1][2]
          /\ Call(pitch, now + dt, Scale \div 2)
    /\ UNCHANGED <<excitement, hostVars>>

SteadyNext == SteadyNote \/ Reset

SteadySpec == SteadyInit /\ [][SteadyNext]_vars

-----------------------------------------------------------------------------
(* The 90-second do-re-mi-fa loop of testDoReMiFa / testDoReMiFaSimulation *)

LoopMillis == 90000
LoopSong == 1

\* decayAmount = (noteInterval / 1000) * decayRate, decayRate = 0.002
NoteDecay == (Songs[LoopSong].dt * 2 * (EScale \div 1000)) \div 1000

\* Math.min(1, Math.max(0, excitement - decayAmount) + result.excitement)
Simulate(prev, increase) ==
    JsMin(EScale, NAdd(JsMax(0, NSub(prev, NoteDecay)), increase))

LoopInit == Init /\ song = LoopSong

\* one turn of the loop: while (timestamp < 90000)
LoopNote ==
    /\ calls = 0 \/ now + Songs[song].dt < LoopMillis
    /\ SongCall
    /\ totalExcitement' = NAdd(totalExcitement, result'.excitement)
    /\ excitement' = Simulate(excitement, result'.excitement)
    /\ UNCHANGED <<held, mutated, pageVars>>

LoopNext == LoopNote

LoopSpec == LoopInit /\ [][LoopNext]_vars

-----------------------------------------------------------------------------
(* The page's key handlers and its MIDI message handler *)

START_MIDI == 36
KEY_COUNT == 61
MaxMidi == 5       \* MIDI messages of a run
MidiDelta == 400   \* ms between the Date.now() readings of two key presses

\* PIANO_KEYS.find(k => k.note === noteName) finds a key
IsKey(n) == n >= START_MIDI /\ n < START_MIDI + KEY_COUNT

\* handleKeyPress(key, midiVelocity): nothing for a key already held; else
\* the key is held and updateSystemExcitement feeds the engine its index
KeyPressAt(n, velocity, timestamp) ==
    IF n \in pressedKeys
    THEN UNCHANGED <<eng, ema, params, paramsState, result, excitement, lastOp,
                     lastIn, fed, calls, resets, changes, now, song, pressedKeys>>
    ELSE /\ pressedKeys' = pressedKeys \cup {n}
         /\ Call(n - START_MIDI, timestamp, velocity)
         /\ excitement' = Accumulate(excitement, result'.excitement)

KeyPress(n, velocity) == KeyPressAt(n, velocity, now + MidiDelta)

\* handleKeyRelease called once for each note of the set
KeyRelease(notes) ==
    /\ pressedKeys' = pressedKeys \ notes
    /\ releases' = [n \in MidiNotes |-> IF n \in notes THEN 1 ELSE 0]

EngineIdle ==
    UNCHANGED <<eng, ema, params, paramsState, result, excitement, lastOp,
                lastIn, fed, calls, resets, changes, now, song>>

\* a note-on that leaves the note among the deferred ones
UndeferNone(deferred, n) == deferred
\* sustainedNotesRef.current.delete(noteName)
Undefer(deferred, n) == deferred \ {n}

MidiInit == Init /\ song = 0

\* NOTE ON: command 0x90 with data2 > 0 (here 127)
MidiNoteOn ==
    /\ msgs < MaxMidi
    /\ \E n \in MidiNotes :
          /\ sustainedNotes' = Undefer(sustainedNotes, n)
          /\ reclaimed' = reclaimed \cup ({n} \cap sustainedNotes)
          /\ IF IsKey(n) THEN KeyPress(n, Scale)
             ELSE EngineIdle /\ UNCHANGED pressedKeys
          /\ lastMsg' = [kind |-> "noteOn", note |-> n]
    /\ releases' = NoReleases
    /\ msgs' = msgs + 1
    /\ UNCHANGED <<sustainActive, held, mutated, totalExcitement, playerVars>>

\* NOTE OFF: command 0x80, or 0x90 with data2 = 0
MidiNoteOff ==
    /\ msgs < MaxMidi
    /\ \E n \in MidiNotes :
          /\ IF sustainActive
             THEN /\ sustainedNotes' = sustainedNotes \cup {n}
                  /\ KeyRelease({})
             ELSE /\ KeyRelease(IF IsKey(n) THEN {n} ELSE {})
                  /\ UNCHANGED sustainedNotes
          /\ reclaimed' = reclaimed \ {n}
          /\ lastMsg' = [kind |-> "noteOff", note |-> n]
    /\ msgs' = msgs + 1
    /\ EngineIdle
    /\ UNCHANGED <<sustainActive, held, mutated, totalExcitement, playerVars>>

\* CC 64 with data2 >= 64
MidiPedalDown ==
    /\ msgs < MaxMidi
    /\ sustainActive' = TRUE
    /\ reclaimed' = IF sustainActive THEN reclaimed ELSE {}
    /\ lastMsg' = [kind |-> "pedalDown", note |-> 0]
    /\ msgs' = msgs + 1
    /\ KeyRelease({})
    /\ EngineIdle
    /\ UNCHANGED <<sustainedNotes, held, mutated, totalExcitement, playerVars>>

\* CC 64 with data2 < 64: every deferred note that is a key is released
MidiPedalUp ==
    /\ msgs < MaxMidi
    /\ sustainActive' = FALSE
    /\ KeyRelease({n \in sustainedNotes : IsKey(n)})
    /\ sustainedNotes' = {}
    /\ lastMsg' = [kind |-> "pedalUp", note |-> 0]
    /\ msgs' = msgs + 1
    /\ EngineIdle
    /\ UNCHANGED <<reclaimed, held, mutated, totalExcitement, playerVars>>

MidiNext == MidiNoteOn \/ MidiNoteOff \/ MidiPedalDown \/ MidiPedalUp

MidiSpec == MidiInit /\ [][MidiNext]_vars

-----------------------------------------------------------------------------
(* useAutoplayer: playSong, stopSong and the timers they schedule *)

MaxPlays == 2      \* playSong calls by the user
MaxStops == 2      \* stopSong calls
MaxFired == 7      \* timer callbacks of a run

\* the first notes of SONG_SEQUENCE, C4 and E4, as MIDI note numbers
AutoSequence == <<60, 64>>
BeatMs == 400
AutoVelocity == (8 * Scale) \div 10

\* a pending timer: what it runs, for which note of the sequence, when, with
\* the shouldLoop of the playSong call that scheduled it, and whether its id
\* was pushed to noteTimeoutsRef
Timer(kind, idx, due, loop, tracked) ==
    [kind |-> kind, idx |-> idx, due |-> due, loop |-> loop, tracked |-> tracked]

\* clearAllTimeouts: clearTimeout for every id in noteTimeoutsRef
clearAllTimeouts(pending) == {t \in pending : ~t.tracked}

\* the press and release timers playSong schedules at time t
Scheduled(t, loop) ==
    {Timer("press", i, t + (i - 1) * BeatMs, loop, TRUE) : i \in DOMAIN AutoSequence}
    \cup {Timer("release", i, t + (i - 1) * BeatMs + (9 * BeatMs) \div 10, loop, TRUE) :
            i \in DOMAIN AutoSequence}

\* the body of playSong(0, shouldLoop), run at time t
Play(t, loop, before) ==
    /\ KeyRelease({n \in activeNotes : IsKey(n)})
    /\ activeNotes' = {}
    /\ autoPlaying' = TRUE
    /\ timers' = clearAllTimeouts(before) \cup Scheduled(t, loop)

PlayerInit == Init /\ song = 0

\* the user starts playback: playSong(0, shouldLoop)
PlaySong ==
    /\ plays < MaxPlays
    /\ \E loop \in BOOLEAN : Play(now, loop, timers)
    /\ stopped' = FALSE
    /\ plays' = plays + 1
    /\ EngineIdle
    /\ UNCHANGED <<fired, stops, midiVars, held, mutated, totalExcitement>>

\* stopSong()
StopSong ==
    /\ stops < MaxStops
    /\ KeyRelease({n \in activeNotes : IsKey(n)})
    /\ activeNotes' = {}
    /\ timers' = clearAllTimeouts(timers)
    /\ autoPlaying' = FALSE
    /\ stopped' = TRUE
    /\ stops' = stops + 1
    /\ EngineIdle
    /\ UNCHANGED <<fired, plays, midiVars, held, mutated, totalExcitement>>

\* the timer the event loop runs next: none pending is due earlier
IsNext(t) == t \in timers /\ \A u \in timers : t.due <= u.due

\* a press timer: handleKeyPress(keyObj, 0.8), then the note is active
FirePress ==
    /\ fired < MaxFired
    /\ \E t \in timers :
          /\ IsNext(t) /\ t.kind = "press"
          /\ KeyPressAt(AutoSequence[t.idx], AutoVelocity, t.due)
          /\ activeNotes' = activeNotes \cup {AutoSequence[t.idx]}
          /\ timers' = timers \ {t}
    /\ releases' = NoReleases
    /\ fired' = fired + 1
    /\ UNCHANGED <<autoPlaying, stopped, plays, stops, midiVars, held, mutated,
                   totalExcitement>>

\* a release timer: handleKeyRelease(keyObj); after the last note it
\* schedules the loop timer or the stop timer
FireRelease ==
    /\ fired < MaxFired
    /\ \E t \in timers :
          /\ IsNext(t) /\ t.kind = "release"
          /\ KeyRelease({AutoSequence[t.idx]})
          /\ activeNotes' = activeNotes \ {AutoSequence[t.idx]}
          /\ timers' = (timers \ {t}) \cup
                IF t.idx # Len(AutoSequence) THEN {}
                ELSE IF t.loop THEN {Timer("loop", 0, t.due + 500, t.loop, TRUE)}
                ELSE {Timer("stop", 0, t.due + 100, t.loop, TRUE)}
          /\ now' = t.due
    /\ fired' = fired + 1
    /\ UNCHANGED <<eng, ema, params, paramsState, result, excitement, lastOp,
                   lastIn, fed, calls, resets, changes, song>>
    /\ UNCHANGED <<autoPlaying, stopped, plays, stops, midiVars, held, mutated,
                   totalExcitement>>

\* the loop timer: clears the tracked timers and schedules the restart,
\* setTimeout(() => playSong(songIndex, shouldLoop), 0), whose id it drops
FireLoop ==
    /\ fired < MaxFired
    /\ \E t \in timers :
          /\ IsNext(t) /\ t.kind = "loop"
          /\ timers' = clearAllTimeouts(timers \ {t})
                          \cup {Timer("restart", 0, t.due, t.loop, FALSE)}
          /\ now' = t.due
    /\ activeNotes' = {}
    /\ autoPlaying' = FALSE
    /\ KeyRelease({})
    /\ fired' = fired + 1
    /\ UNCHANGED <<eng, ema, params, paramsState, result, excitement, lastOp,
                   lastIn, fed, calls, resets, changes, song>>
    /\ UNCHANGED <<stopped, plays, stops, midiVars, held, mutated, totalExcitement>>

\* the stop timer of a playback that does not loop
FireStop ==
    /\ fired < MaxFired
    /\ \E t \in timers :
          /\ IsNext(t) /\ t.kind = "stop"
          /\ timers' = timers \ {t}
          /\ now' = t.due
    /\ autoPlaying' = FALSE
    /\ KeyRelease({})
    /\ fired' = fired + 1
    /\ UNCHANGED <<eng, ema, params, paramsState, result, excitement, lastOp,
                   lastIn, fed, calls, resets, changes, song>>
    /\ UNCHANGED <<activeNotes, stopped, plays, stops, midiVars, held, mutated,
                   totalExcitement>>

\* the restart timer: playSong(songIndex, shouldLoop)
FireRestart ==
    /\ fired < MaxFired
    /\ \E t \in timers :
          /\ IsNext(t) /\ t.kind = "restart"
          /\ Play(t.due, t.loop, timers \ {t})
          /\ now' = t.due
    /\ fired' = fired + 1
    /\ UNCHANGED <<eng, ema, params, paramsState, result, excitement, lastOp,
                   lastIn, fed, calls, resets, changes, song>>
    /\ UNCHANGED <<stopped, plays, stops, midiVars, held, mutated, totalExcitement>>

PlayerNext ==
    PlaySong \/ StopSong \/ FirePress \/ FireRelease \/ FireLoop \/ FireStop
      \/ FireRestart

PlayerSpec == PlayerInit /\ [][PlayerNext]_vars

-----------------------------------------------------------------------------
(* Properties *)

ReplayLen == 3     \* longest replay compared against a fresh engine

\* arguments the specification calls valid: finite timestamp and velocity,
\* velocity in [0,1], pitch index not negative
ValidInput(in) ==
    /\ in.timestamp # NaN
    /\ in.velocity # NaN
    /\ 0 <= in.velocity /\ in.velocity <= Scale
    /\ in.pitch >= 0

InUnit(x) == x # NaN /\ 0 <= x /\ x <= Scale

\* every call since construction or the last reset had valid arguments
FedValid ==
    \A i \in 1..Len(fed) :
        ValidInput([pitch |-> fed[i][1], timestamp |-> fed[i][2],
                    velocity |-> fed[i][3]])

\* a freshly constructed engine after the first n calls of inputs
RECURSIVE Replay(_, _)
Replay(inputs, n) ==
    IF n = 0 THEN Constructor
    ELSE processNote(Replay(inputs, n - 1),
                     inputs[n][1], inputs[n][2], inputs[n][3])

IsBaseline(x) == x \notin {"undefined", "null"}

Between(x, a, b) == (a <= x /\ x <= b) \/ (b <= x /\ x <= a)

\* C1: after every processNote call of a run of calls with finite inputs
\* (non-decreasing timestamps, equal ones included; velocity in [0,1]), each
\* of the six metrics and the musicality score lies in [0,1] and is not NaN.
C1_Bounded ==
    FedValid =>
        /\ InUnit(eng.musicalityScore)
        /\ \A m \in MetricNames : InUnit(eng.metrics[m])
        /\ lastOp = "note" =>
              /\ InUnit(result.score)
              /\ \A m \in MetricNames : InUnit(result.metrics[m])

\* C3: after reset(), replaying a sequence gives at every step the results
\* and the engine state of a freshly constructed engine replaying it; with no
\* call replayed yet, the engine equals the constructed one field by field.
C3_ResetEqualsFresh ==
    (resets > 0 /\ Len(fed) <= ReplayLen) =>
        /\ eng = Replay(fed, Len(fed))
        /\ lastOp = "note" => result = Returned(Replay(fed, Len(fed)))

\* a replay after a reset that followed earlier calls
C3_Witness ==
    /\ resets > 0
    /\ calls > Len(fed)
    /\ Len(fed) = ReplayLen
    /\ lastOp = "note"
    /\ result.score > 0

\* C4: the first processNote call on a fresh or just-reset engine, with valid
\* arguments, returns rhythmicConsistency = 0, melodicCoherence = 0 and an
\* excitement of 0.
C4_ColdStart ==
    (lastOp = "note" /\ Len(fed) = 1 /\ ValidInput(lastIn)) =>
        /\ result.metrics.rhythmicConsistency = 0
        /\ result.metrics.melodicCoherence = 0
        /\ result.excitement = 0

\* the first call after a reset that followed earlier calls
C4_Witness ==
    /\ lastOp = "note"
    /\ Len(fed) = 1
    /\ ValidInput(lastIn)
    /\ resets > 0
    /\ calls > 1
    /\ result.score > 0

\* C5: a processNote call with an invalid argument (a non-finite timestamp or
\* velocity, a pitch index out of range) leaves the engine state as it was.
C5_InvalidRejected ==
    [][(calls' = calls + 1 /\ ~ValidInput(lastIn')) => eng' = eng]_vars

\* C6: after n processNote calls since construction or reset, the note and
\* time histories hold, in arrival order, exactly the pitches and timestamps
\* of the most recent min(n, 32) calls.
C6_HistoryWindow ==
    LET n == Len(fed)
        k == Min(n, HistoryCap)
    IN  /\ eng.noteHistory = [i \in 1..k |-> fed[n - k + i][1]]
        /\ eng.timeHistory = [i \in 1..k |-> fed[n - k + i][2]]

\* more calls than the histories hold: the oldest entry has been evicted
C6_Witness ==
    /\ Len(fed) > HistoryCap
    /\ lastOp = "note"
    /\ Len(eng.noteHistory) = HistoryCap
    /\ eng.timeHistory[1] # fed[1][2]

\* C7: on every event after the seeding event the engine holds a baseline;
\* the emitted excitement is positive exactly when the score exceeds the
\* baseline held before the event, and the baseline then moves to
\* alpha*score + (1-alpha)*baseline, a value between the two.
C7_DeltaFromPriorBaseline ==
    [][(calls' = calls + 1 /\ lastOp = "note" /\ FedValid') =>
          /\ IsBaseline(ema)
          /\ IsBaseline(ema')
          /\ Between(ema', ema, result'.score)
          /\ (result'.excitement > 0) <=> (result'.score > ema)]_vars

\* C8: on a non-seeding event the emitted excitement is positive when the
\* score exceeds the prior baseline and negative when it is at or below it.
\* Stated for the second event of a run, whose prior baseline is the score of
\* the seeding event.
C8_SignFollowsBaseline ==
    [][(/\ calls' = calls + 1
        /\ lastOp = "note"
        /\ Len(fed) = 1
        /\ FedValid'
        /\ result'.score # NaN) =>
          /\ result'.score > result.score => result'.excitement > 0
          /\ result'.score <= result.score => result'.excitement < 0]_vars

\* C9: over consecutive events whose score stays constant the emitted
\* excitement does not remain at a fixed positive value.
C9_ConstantScoreNotRewarded ==
    [][(/\ calls' = calls + 1
        /\ lastOp = "note"
        /\ FedValid'
        /\ result.score # NaN
        /\ result'.score = result.score
        /\ result.excitement > 0) =>
          result'.excitement # result.excitement]_vars

\* C10: updateParam changes only the value of the named parameter and sets
\* the engine's ema to null; the engine's histories, metrics, scale context
\* and musicality score, and the last result, stay as they were.
C10_ParamFrame ==
    [][changes' = changes + 1 =>
          /\ eng' = eng
          /\ result' = result
          /\ ema' = "null"
          /\ \E key \in ParamKeys :
                /\ params' = [params EXCEPT ![key] = params'[key]]
                /\ paramsState' =
                      [paramsState EXCEPT ![key] = paramsState'[key]]]_vars

\* a parameter change on an engine that has processed notes
C10_Witness ==
    /\ lastOp = "param"
    /\ changes > 0
    /\ ema = "null"
    /\ params # MODEL_PARAMS
    /\ Len(eng.noteHistory) > 0
    /\ eng.musicalityScore > 0

\* C11: the application's excitement accumulator stays within [0,1] under
\* any interleaving of note events and decay ticks.
C11_AccumulatorBounded ==
    excitement # NaN /\ 0 <= excitement /\ excitement <= EScale

\* C12: once note events have ceased and the decay loop keeps ticking, the
\* accumulator reaches 0 and stays there (a run has finitely many note
\* events, so in every behaviour they cease).
C12_DrainsToZero == <>[](excitement = 0)

C14_FirstTwoZero ==
    (/\ lastOp = "note"
     /\ Len(fed) <= 2
     /\ result.metrics.rhythmicConsistency # NaN) =>
        result.metrics.rhythmicConsistency = 0

\* C15: for every 20 notes from a reset engine with pitch indices in [0,16]
\* and inter-onset intervals all between 50 and 100 ms, uniform ones
\* included, the final rhythmicConsistency is below 0.3.
C15_MashingRhythmLow ==
    (/\ lastOp = "note"
     /\ Len(fed) = 20
     /\ \A i \in 1..20 : fed[i][1] \in 0..16
     /\ \A i \in 2..20 : fed[i][2] - fed[i - 1][2] \in 50..100) =>
        10 * result.metrics.rhythmicConsistency < 3 * Scale

\* the mean inter-onset interval over the last (up to) 5 timestamps fed is
\* below 100 ms
FedFast ==
    LET n == Len(fed)
        k == Min(n, 5)
    IN  fed[n][2] - fed[n - k + 1][2] < 100 * (k - 1)

\* C16: whenever at least 3 notes have been processed and the mean
\* inter-onset interval over the last (up to) 5 timestamps is below 100 ms,
\* the returned score is below 0.2 and the returned excitement is 0,
\* whatever the pitches.
C16_MashingScoreLow ==
    (lastOp = "note" /\ Len(fed) >= 3 /\ FedValid /\ FedFast) =>
        /\ result.score # NaN
        /\ 10 * result.score < 2 * Scale
        /\ result.excitement = 0

\* the last 8 calls since construction or reset played the same pitch
FedSamePitch ==
    /\ Len(fed) >= 8
    /\ \A i \in (Len(fed) - 7)..Len(fed) : fed[i][1] = fed[Len(fed)][1]

\* C17: after the same pitch has been played 8 times in a row, at any tempo,
\* melodicCoherence is at most 0.3.
C17_RepetitionLow ==
    FedSamePitch => 10 * eng.metrics.melodicCoherence <= 3 * Scale

\* the eighth call of the same pitch on a reset engine
C17_Witness ==
    /\ FedSamePitch
    /\ Len(fed) = 8
    /\ resets > 0
    /\ lastOp = "note"
    /\ result.metrics.melodicCoherence = eng.metrics.melodicCoherence

\* the calls since construction or reset are exactly the ascending major
\* scale on p, 400 ms apart
FedMajorScale(p) ==
    /\ Len(fed) = 8
    /\ \A i \in 1..8 : fed[i][1] = MajorScale(p).pattern[i]
    /\ \A i \in 2..8 : fed[i][2] # NaN /\ fed[i][2] - fed[i - 1][2] = 400

\* C18: for every transposition p in 0..11, at the final note of the ascending
\* major scale on p played 400 ms apart from a fresh or reset engine,
\* melodicCoherence > 0.6, scaleAdherence > 0.8 and the score > 0.7.
C18_MajorScaleRewarded ==
    \A p \in 0..11 :
        FedMajorScale(p) =>
            /\ 10 * eng.metrics.melodicCoherence > 6 * Scale
            /\ 10 * eng.metrics.scaleAdherence > 8 * Scale
            /\ 10 * eng.musicalityScore > 7 * Scale

\* the final note of the scale on 11, played to an engine that was reset
C18_Witness ==
    /\ FedMajorScale(11)
    /\ resets > 0
    /\ lastOp = "note"
    /\ result.score = eng.musicalityScore

\* the fit of every (template, root) pair, in enumeration order, to the
\* window the engine last detected a scale in
WindowFits == ScaleFits(PitchClasses(LastK(eng.noteHistory, 12)))
BestOf(fits) == SetMax({fits[k] : k \in DOMAIN fits})
\* the first pair in enumeration order whose fit is best
FirstOf(fits, best) ==
    CHOOSE k \in DOMAIN fits :
        /\ fits[k] = best
        /\ \A j \in 1..(k - 1) : fits[j] # best

\* C19: once a scale is detected (5 notes or more, some pair fitting a note),
\* the recorded scale context is the first (template, root) pair, in the
\* order MAJOR .. CHROMATIC with roots 0..11 inside each template, that
\* attains the best fit; a later pair with an equal fit is never recorded.
C19_FirstBestWins ==
    Len(eng.noteHistory) >= 5 =>
        LET fits == WindowFits
            best == BestOf(fits)
            first == FirstOf(fits, best)
        IN  best > 0 =>
              /\ eng.scaleContext.name = ScaleNames[((first - 1) \div 12) + 1]
              /\ eng.scaleContext.root = (first - 1) % 12
              /\ eng.scaleContext.score
                   = (best * Scale)
                       \div Cardinality(PitchClasses(LastK(eng.noteHistory, 12)))

\* a detection in which a later pair of another template ties the winner, and
\* the winner is not the very first pair
C19_Witness ==
    /\ lastOp = "note"
    /\ Len(eng.noteHistory) >= 5
    /\ LET fits == WindowFits
           best == BestOf(fits)
           first == FirstOf(fits, best)
       IN  /\ best > 0
           /\ first > 1
           /\ \E k \in DOMAIN fits :
                 /\ (k - 1) \div 12 > (first - 1) \div 12
                 /\ fits[k] = best
           /\ eng.scaleContext.root = (first - 1) % 12

\* the phrase bonus: the notes processed since reset are a multiple of 4 or 8
NotesPhraseBonus == IF Len(fed) % 4 = 0 \/ Len(fed) % 8 = 0 THEN Scale \div 2 ELSE 0

\* the cadence bonus: the latest pitch class is the root of the scale
\* detected at this event
EventCadenceBonus ==
    IF /\ eng.scaleContext.name # "null"
       /\ JsRem(fed[Len(fed)][1], 12) = eng.scaleContext.root
    THEN Scale \div 2 ELSE 0

\* C20: after each event phraseStructure is min(1, phrase bonus + cadence
\* bonus), the phrase bonus granted exactly when the number of notes processed
\* since reset is a multiple of 4 (or 8), the cadence bonus exactly when the
\* latest pitch class is the root of the scale detected at the same event.
C20_PhraseFormula ==
    (lastOp = "note" /\ Len(fed) > 0) =>
        result.metrics.phraseStructure = Min(Scale, NotesPhraseBonus + EventCadenceBonus)

IsPrefix(roots, progression) ==
    /\ Len(roots) <= Len(progression)
    /\ \A i \in 1..Len(roots) : roots[i] = progression[i]

\* matched-prefix-length / progression-length for the first progression of
\* the table that the roots are an exact prefix of, else 0
ProgressionScore(roots) ==
    LET hits == {k \in 1..Len(PROGRESSIONS) : IsPrefix(roots, PROGRESSIONS[k])}
    IN  IF hits = {} THEN 0
        ELSE LET k == CHOOSE h \in hits : \A j \in hits : h <= j
             IN  (Len(roots) * Scale) \div Len(PROGRESSIONS[k])

\* C21: harmonicProgression is matched-prefix-length / progression-length for
\* the first progression of the table that the last (up to 4) detected chord
\* roots, which the engine keeps in chordBuffer, are an exact prefix of, and 0
\* when no progression matches.
C21_ProgressionPrefix ==
    eng.metrics.harmonicProgression = ProgressionScore(LastK(eng.chordBuffer, 4))

FedSteady ==
    \A i \in 2..Len(fed) :
        /\ fed[i][2] # NaN /\ fed[i - 1][2] # NaN
        /\ fed[i][2] - fed[i - 1][2] = fed[2][2] - fed[1][2]
        /\ 334 <= fed[i][2] - fed[i - 1][2]
        /\ fed[i][2] - fed[i - 1][2] <= 1000

\* C23: at a constant inter-onset interval between 334 and 1000 ms, whatever
\* the pitches, rhythmicConsistency is above 0.8 at the fifth note since reset
\* and at every later note of the stream.
C23_SteadyRhythmHigh ==
    (Len(fed) >= 5 /\ FedSteady) =>
        10 * eng.metrics.rhythmicConsistency > 8 * Scale

\* the fifth note, one second after the fourth, of a stream of mixed pitches
\* played to a reset engine
C23_Witness ==
    /\ Len(fed) = 5
    /\ FedSteady
    /\ fed[5][2] - fed[4][2] = 1000
    /\ fed[5][1] # fed[4][1]
    /\ resets > 0
    /\ lastOp = "note"
    /\ result.metrics.rhythmicConsistency = eng.metrics.rhythmicConsistency

\* the loop has run its 90 seconds
LoopDone == lastOp = "note" /\ now + Songs[song].dt >= LoopMillis

\* C24: after 90 seconds (240 notes) of [0,2,4,5] at 375 ms from a fresh
\* engine, the returned excitement sums to between 0.9 and 1.1, and the
\* accumulator that decays 0.002 per second and is clamped between notes ends
\* between 0.85 and 1.0.
C24_NinetySeconds ==
    LoopDone =>
        /\ totalExcitement # NaN /\ excitement # NaN
        /\ 9 * EScale <= 10 * totalExcitement
        /\ 10 * totalExcitement <= 11 * EScale
        /\ 85 * (EScale \div 100) <= excitement
        /\ excitement <= EScale

\* the 240th note of the loop
C24_Witness ==
    /\ LoopDone
    /\ calls = 240
    /\ song = LoopSong
    /\ totalExcitement > excitement

\* the absolute intervals between consecutive notes of the last 8
WindowIntervals ==
    LET d == Diffs(LastK(eng.noteHistory, 8))
    IN  [i \in DOMAIN d |-> Abs(d[i])]

\* intervals of at most 2 semitones
WindowSteps ==
    Cardinality({i \in DOMAIN WindowIntervals : WindowIntervals[i] <= 2})

\* intervals that repeat an interval already counted: total - distinct
WindowRepeats ==
    Len(WindowIntervals)
      - Cardinality({WindowIntervals[i] : i \in DOMAIN WindowIntervals})

\* C25: melodicCoherence is the clamp to [0,1] of a weighted combination of
\* the fraction of intervals of at most 2 semitones and the motif-variety term
\* 1 - distinct/total, less a penalty for leaps of 8 or more semitones.  Leaps
\* only ever subtract, so whatever the weights of the combination the metric
\* is at most the larger of the two terms (stated for pitch indices >= 0).
C25_LeapsOnlyPenalized ==
    (/\ Len(eng.noteHistory) >= 2
     /\ \A i \in DOMAIN eng.noteHistory : eng.noteHistory[i] >= 0) =>
        eng.metrics.melodicCoherence * Len(WindowIntervals)
            <= Max(WindowSteps, WindowRepeats) * Scale

\* 0.00492 * x, for x in units of 1/Scale, in units of 1/EScale
Rate(x) == (BaseRatePerNote * x) \div (Scale \div (EScale \div 100000))

C27_ScaleAdherenceTwoValued ==
    (\A i \in DOMAIN fed : fed[i][1] >= 0) =>
        eng.metrics.scaleAdherence = IF Len(fed) < 5 THEN 0 ELSE Scale

\* the fifth note of a stream that only CHROMATIC fits completely, played
\* to an engine that was reset
C27_Witness ==
    /\ lastOp = "note"
    /\ Len(fed) = 5
    /\ resets > 0
    /\ \A i \in DOMAIN fed : fed[i][1] >= 0
    /\ eng.scaleContext.name = "CHROMATIC"
    /\ result.metrics.scaleAdherence = Scale

\* C28: once 32 or more notes have been processed since construction or
\* reset, phraseStructure is 0.5 or 1 at every event: the phrase-length test
\* reads the length of the capped history, which stays at 32.
C28_PhraseBonusStuck ==
    Len(fed) >= HistoryCap =>
        eng.metrics.phraseStructure \in {Scale \div 2, Scale}

\* the 34th note: a count that is no multiple of 4, a pitch that is not the
\* root, and the phrase bonus all the same
C28_Witness ==
    /\ lastOp = "note"
    /\ Len(fed) = HistoryCap + 2
    /\ Len(eng.noteHistory) = HistoryCap
    /\ JsRem(fed[Len(fed)][1], 12) # eng.scaleContext.root
    /\ result.metrics.phraseStructure = Scale \div 2

\* C29: a note-off while the sustain pedal is held releases nothing and defers
\* the note; the next pedal lift releases every deferred key exactly once,
\* releases nothing else, and empties the deferred set; a note-on takes its
\* note out of the deferred set, so the lift does not release it; and while
\* the pedal is up the deferred set is empty.
C29_SustainDefers ==
    [][/\ (lastMsg'.kind = "noteOff" /\ sustainActive) =>
              /\ releases' = NoReleases
              /\ pressedKeys' = pressedKeys
              /\ sustainedNotes' = sustainedNotes \cup {lastMsg'.note}
       /\ lastMsg'.kind = "pedalUp" =>
              /\ \A n \in MidiNotes :
                    releases'[n] = IF n \in sustainedNotes /\ IsKey(n) THEN 1 ELSE 0
              /\ \A n \in reclaimed : releases'[n] = 0
              /\ sustainedNotes' = {}
       /\ lastMsg'.kind = "noteOn" =>
              /\ lastMsg'.note \notin sustainedNotes'
              /\ releases' = NoReleases
       /\ reclaimed' \cap sustainedNotes' = {}
       /\ ~sustainActive' => sustainedNotes' = {}]_vars

\* a pedal lift that released a deferred key, and did not release a key that
\* was deferred and struck again while the pedal was held
C29_Witness ==
    /\ lastMsg.kind = "pedalUp"
    /\ releases[60] = 1
    /\ 64 \in reclaimed
    /\ releases[64] = 0
    /\ 64 \in pressedKeys
    /\ sustainedNotes = {}

\* C30: once stopSong has returned, and until the user calls playSong again,
\* no timer of the autoplayer is pending (so no key press or release of its
\* can fire), a pending loop restart included, no note is active and
\* autoPlaying is false.
C30_StopCancelsAll ==
    stopped => (timers = {} /\ activeNotes = {} /\ ~autoPlaying)

====
